---- MODULE Spec2Model ----
(***************************************************************************)
(* storm-config-from-env.py: merge of STORM_* environment variables into   *)
(* <STORM_CONF_DIR>/storm.yaml.                                            *)
(*                                                                         *)
(* Python strings are modelled as sequences of one-character strings, so   *)
(* that prefix tests, lower(), replace(), split(), strip(), int() and      *)
(* float() are computed character by character.  Python values are tagged  *)
(* records [t, v]; a dict is the sequence of its <<key, value>> items in   *)
(* insertion order.  The file is a sequence of block-style YAML lines.     *)
(***************************************************************************)
EXTENDS Integers, Sequences, FiniteSets, TLC

----------------------------------------------------------------------------
(* Bounds of the model *)

MaxEnv == 2
MaxRuns == 2

----------------------------------------------------------------------------
(* Characters and strings *)

Str_STORM_ == <<"S", "T", "O", "R", "M", "_">>

Digits == {"0", "1", "2", "3", "4", "5", "6", "7", "8", "9"}

Whitespace == {" "}

(* Unicode code points of the characters that occur in variable names *)
Ord(c) ==
    CASE c = "A" -> 65 [] c = "B" -> 66 [] c = "C" -> 67 [] c = "D" -> 68
      [] c = "F" -> 70 [] c = "H" -> 72 [] c = "I" -> 73 [] c = "M" -> 77
      [] c = "N" -> 78 [] c = "O" -> 79 [] c = "P" -> 80 [] c = "R" -> 82
      [] c = "S" -> 83 [] c = "T" -> 84 [] c = "_" -> 95
      [] c = "a" -> 97 [] c = "b" -> 98 [] c = "c" -> 99

(* str.lower() on one character *)
LowerChar(c) ==
    CASE c = "A" -> "a" [] c = "B" -> "b" [] c = "C" -> "c" [] c = "D" -> "d"
      [] c = "E" -> "e" [] c = "F" -> "f" [] c = "H" -> "h" [] c = "I" -> "i"
      [] c = "L" -> "l" [] c = "M" -> "m" [] c = "N" -> "n" [] c = "O" -> "o"
      [] c = "P" -> "p" [] c = "R" -> "r" [] c = "S" -> "s" [] c = "T" -> "t"
      [] c = "U" -> "u" [] c = "X" -> "x" [] c = "G" -> "g" [] c = "J" -> "j"
      [] c = "K" -> "k" [] c = "Q" -> "q" [] c = "V" -> "v" [] c = "W" -> "w"
      [] c = "Y" -> "y" [] c = "Z" -> "z"
      [] OTHER -> c

Lower(s) == [i \in 1..Len(s) |-> LowerChar(s[i])]

StartsWith(s, p) == Len(s) >= Len(p) /\ SubSeq(s, 1, Len(p)) = p

Contains(s, c) == \E i \in 1..Len(s) : s[i] = c

(* str.split(sep) for a one-character separator: always >= 1 piece *)
RECURSIVE SplitAcc(_, _, _)
SplitAcc(s, sep, cur) ==
    IF s = <<>> THEN <<cur>>
    ELSE IF Head(s) = sep THEN <<cur>> \o SplitAcc(Tail(s), sep, <<>>)
    ELSE SplitAcc(Tail(s), sep, Append(cur, Head(s)))

Split(s, sep) == SplitAcc(s, sep, <<>>)

(* str.strip() *)
RECURSIVE LStrip(_)
LStrip(s) == IF s # <<>> /\ Head(s) \in Whitespace THEN LStrip(Tail(s)) ELSE s

RECURSIVE RStrip(_)
RStrip(s) ==
    IF s # <<>> /\ s[Len(s)] \in Whitespace THEN RStrip(SubSeq(s, 1, Len(s) - 1)) ELSE s

Strip(s) == RStrip(LStrip(s))

(* variant: every underscore becomes a dot *)
ReplaceEveryUnderscore(s) == [i \in 1..Len(s) |-> IF s[i] = "_" THEN "." ELSE s[i]]

(* str.replace('__', '.'): one left-to-right pass over non-overlapping matches *)
RECURSIVE ReplaceDoubleUnderscore(_)
ReplaceDoubleUnderscore(s) ==
    IF Len(s) < 2 THEN s
    ELSE IF s[1] = "_" /\ s[2] = "_"
         THEN <<".">> \o ReplaceDoubleUnderscore(SubSeq(s, 3, Len(s)))
         ELSE <<s[1]>> \o ReplaceDoubleUnderscore(Tail(s))

----------------------------------------------------------------------------
(* Python values *)

PyNone == [t |-> "null", v |-> 0]
PyBool(b) == [t |-> "bool", v |-> b]
PyInt(n) == [t |-> "int", v |-> n]
PyFloat(s) == [t |-> "float", v |-> s]
PyStr(s) == [t |-> "str", v |-> s]
PyList(xs) == [t |-> "list", v |-> xs]
PyDict(items) == [t |-> "dict", v |-> items]

IsList(x) == x.t = "list"
IsDict(x) == x.t = "dict"

----------------------------------------------------------------------------
(* parse_value / parse_single_value *)

DigitVal(c) ==
    CASE c = "0" -> 0 [] c = "1" -> 1 [] c = "2" -> 2 [] c = "3" -> 3 [] c = "4" -> 4
      [] c = "5" -> 5 [] c = "6" -> 6 [] c = "7" -> 7 [] c = "8" -> 8 [] c = "9" -> 9

(* digits, with single underscores allowed between digits (PEP 515) *)
IsDigitRun(s) ==
    /\ s # <<>>
    /\ \A i \in 1..Len(s) : s[i] \in Digits \cup {"_"}
    /\ s[1] \in Digits /\ s[Len(s)] \in Digits
    /\ \A i \in 1..(Len(s) - 1) : ~(s[i] = "_" /\ s[i + 1] = "_")

RECURSIVE DigitRunVal(_, _)
DigitRunVal(s, acc) ==
    IF s = <<>> THEN acc
    ELSE IF Head(s) = "_" THEN DigitRunVal(Tail(s), acc)
    ELSE DigitRunVal(Tail(s), 10 * acc + DigitVal(Head(s)))

Unsigned(s) == IF s # <<>> /\ Head(s) \in {"+", "-"} THEN Tail(s) ELSE s

(* int(value) does not raise ValueError: surrounding whitespace is stripped by int() *)
IntParses(value) == IsDigitRun(Unsigned(Strip(value)))

IntOf(value) ==
    LET s == Strip(value)
        n == DigitRunVal(Unsigned(s), 0)
    IN IF s # <<>> /\ Head(s) = "-" THEN 0 - n ELSE n

IndexOf(s, cs) ==
    IF \E i \in 1..Len(s) : s[i] \in cs
    THEN CHOOSE i \in 1..Len(s) : s[i] \in cs /\ \A j \in 1..(i - 1) : s[j] \notin cs
    ELSE 0

(* [digits][.[digits]] with at least one digit *)
IsDecimalMantissa(m) ==
    LET d == IndexOf(m, {"."})
        ip == IF d = 0 THEN m ELSE SubSeq(m, 1, d - 1)
        fp == IF d = 0 THEN <<>> ELSE SubSeq(m, d + 1, Len(m))
    IN /\ ip = <<>> \/ IsDigitRun(ip)
       /\ fp = <<>> \/ IsDigitRun(fp)
       /\ ip # <<>> \/ fp # <<>>

(* float(value) does not raise ValueError *)
FloatParses(value) ==
    LET u == Unsigned(Strip(value))
        e == IndexOf(u, {"e", "E"})
        m == IF e = 0 THEN u ELSE SubSeq(u, 1, e - 1)
        x == IF e = 0 THEN <<>> ELSE SubSeq(u, e + 1, Len(u))
    IN \/ Lower(u) \in {<<"i", "n", "f">>, <<"n", "a", "n">>,
                        <<"i", "n", "f", "i", "n", "i", "t", "y">>}
       \/ /\ IsDecimalMantissa(m)
          /\ e = 0 \/ IsDigitRun(Unsigned(x))

parse_single_value(value) ==
    IF IntParses(value) THEN PyInt(IntOf(value))
    ELSE IF FloatParses(value) THEN PyFloat(Lower(Strip(value)))
    ELSE PyStr(value)

parse_value(value) ==
    IF value = <<>> THEN PyNone
    ELSE IF Lower(value) \in {<<"t", "r", "u", "e">>, <<"f", "a", "l", "s", "e">>}
         THEN PyBool(Lower(value) = <<"t", "r", "u", "e">>)
    ELSE IF Contains(value, ",")
         THEN LET items == Split(value, ",")
              IN PyList([i \in 1..Len(items) |-> parse_single_value(Strip(items[i]))])
    ELSE parse_single_value(value)

----------------------------------------------------------------------------
(* Document tree: dicts as sequences of <<key, value>> items in insertion order *)

HasKey(items, k) == \E i \in 1..Len(items) : items[i][1] = k

KeyIndex(items, k) == CHOOSE i \in 1..Len(items) : items[i][1] = k

Lookup(items, k) == items[KeyIndex(items, k)][2]

Keys(items) == [i \in 1..Len(items) |-> items[i][1]]

(* variant: the key is appended without looking for an existing one *)
DictPut_AlwaysAppend(items, k, v) == Append(items, <<k, v>>)

(* variant: an existing key is removed and put again at the end *)
DictPut_MoveToEnd(items, k, v) ==
    Append(SelectSeq(items, LAMBDA it : it[1] # k), <<k, v>>)

(* d[k] = v of a Python dict: an existing key keeps its position, a new key goes last *)
DictPut(items, k, v) ==
    IF HasKey(items, k)
    THEN [i \in 1..Len(items) |-> IF items[i][1] = k THEN <<k, v>> ELSE items[i]]
    ELSE Append(items, <<k, v>>)

RECURSIVE GetWalk(_, _)
GetWalk(current, keys) ==
    IF keys = <<>> THEN current
    ELSE IF IsDict(current) /\ HasKey(current.v, Head(keys))
         THEN GetWalk(Lookup(current.v, Head(keys)), Tail(keys))
         ELSE PyNone

get_nested_value(config, key_path) == GetWalk(config, Split(key_path, "."))

(* Result of walking set_nested_value from `current`: raised = TRUE when a    *)
(* TypeError is raised; node is `current` as the walk has mutated it so far. *)
RECURSIVE SetWalk(_, _, _)
SetWalk(current, keys, value) ==
    IF Len(keys) = 1
    THEN (* current[keys[-1]] = value *)
         IF IsDict(current)
         THEN [raised |-> FALSE, node |-> PyDict(DictPut(current.v, keys[1], value))]
         ELSE [raised |-> TRUE, node |-> current]
    ELSE (* if k not in current: current[k] = {} ; current = current[k] *)
         IF IsDict(current)
         THEN LET k == Head(keys)
                  made == IF HasKey(current.v, k) THEN current.v
                          ELSE DictPut(current.v, k, PyDict(<<>>))
                  r == SetWalk(Lookup(made, k), Tail(keys), value)
              IN [raised |-> r.raised, node |-> PyDict(DictPut(made, k, r.node))]
         ELSE (* str, list: the membership test works but the item access or  *)
              (* item assignment raises; None, bool, int, float: the          *)
              (* membership test itself raises                                *)
              [raised |-> TRUE, node |-> current]

set_nested_value(config, key, value) == SetWalk(config, Split(key, "."), value)

----------------------------------------------------------------------------
(* YAML text: block style lines as written by yaml.dump(..., default_flow_style=False) *)

Tok(style, text) == [style |-> style, text |-> text]

NoTok == Tok("none", <<>>)

Line(ind, kind, key, val) == [ind |-> ind, kind |-> kind, key |-> key, val |-> val]

Str_null == <<"n", "u", "l", "l">>
Str_true == <<"t", "r", "u", "e">>
Str_false == <<"f", "a", "l", "s", "e">>

YamlNulls == {<<>>, <<"~">>, Str_null, <<"N", "u", "l", "l">>, <<"N", "U", "L", "L">>}

YamlTrues ==
    {Str_true, <<"T", "r", "u", "e">>, <<"T", "R", "U", "E">>,
     <<"y", "e", "s">>, <<"Y", "e", "s">>, <<"Y", "E", "S">>,
     <<"o", "n">>, <<"O", "n">>, <<"O", "N">>}

YamlFalses ==
    {Str_false, <<"F", "a", "l", "s", "e">>, <<"F", "A", "L", "S", "E">>,
     <<"n", "o">>, <<"N", "o">>, <<"N", "O">>,
     <<"o", "f", "f">>, <<"O", "f", "f">>, <<"O", "F", "F">>}

(* resolver pattern for int: optional sign, then 0 or a nonzero digit followed by digits and underscores *)
YamlIsInt(s) ==
    LET u == Unsigned(s)
    IN /\ u # <<>>
       /\ \A i \in 1..Len(u) : u[i] \in Digits \cup {"_"}
       /\ u[1] \in Digits
       /\ u[1] = "0" => Len(u) = 1

(* resolver pattern for float: a dot is required, the exponent needs a sign; also .inf and .nan *)
YamlIsFloat(s) ==
    LET u == Unsigned(s)
        e == IndexOf(u, {"e", "E"})
        m == IF e = 0 THEN u ELSE SubSeq(u, 1, e - 1)
        x == IF e = 0 THEN <<>> ELSE SubSeq(u, e + 1, Len(u))
        d == IndexOf(m, {"."})
    IN \/ Lower(u) \in {<<".", "i", "n", "f">>}
       \/ Lower(s) \in {<<".", "n", "a", "n">>}
       \/ /\ d > 0
          /\ Len(m) >= 2
          /\ \A i \in 1..Len(m) : i # d => m[i] \in Digits \cup {"_"}
          /\ (IF d = 1 THEN m[2] ELSE m[1]) \in Digits
          /\ e = 0 \/ (/\ Len(x) >= 2
                       /\ x[1] \in {"+", "-"}
                       /\ \A i \in 2..Len(x) : x[i] \in Digits)

(* implicit tag of a plain scalar *)
YamlResolve(s) ==
    IF s \in YamlNulls THEN "null"
    ELSE IF s \in YamlTrues \cup YamlFalses THEN "bool"
    ELSE IF YamlIsInt(s) THEN "int"
    ELSE IF YamlIsFloat(s) THEN "float"
    ELSE "str"

YamlIndicators == {"-", "?", ":", ",", "[", "]", "{", "}", "#", "&", "*", "!", "|", ">", "'", "%", "@"}

(* a str may be emitted as a plain scalar *)
PlainAllowed(s) ==
    /\ s # <<>>
    /\ YamlResolve(s) = "str"
    /\ s[1] \notin Whitespace \cup YamlIndicators
    /\ s[Len(s)] \notin Whitespace
    /\ \A i \in 1..(Len(s) - 1) : ~(s[i] = ":" /\ s[i + 1] = " ") /\ ~(s[i] = " " /\ s[i + 1] = "#")

DigitChar(n) ==
    CASE n = 0 -> "0" [] n = 1 -> "1" [] n = 2 -> "2" [] n = 3 -> "3" [] n = 4 -> "4"
      [] n = 5 -> "5" [] n = 6 -> "6" [] n = 7 -> "7" [] n = 8 -> "8" [] n = 9 -> "9"

RECURSIVE NatToStr(_)
NatToStr(n) == IF n < 10 THEN <<DigitChar(n)>> ELSE Append(NatToStr(n \div 10), DigitChar(n % 10))

IntToStr(n) == IF n < 0 THEN <<"-">> \o NatToStr(0 - n) ELSE NatToStr(n)

(* represent_float: the repr, with .inf / .nan and a ".0" before a bare exponent *)
FloatText(v) ==
    LET u == Unsigned(v)
        sign == IF v # <<>> /\ v[1] = "-" THEN <<"-">> ELSE <<>>
        e == IndexOf(u, {"e"})
    IN IF u \in {<<"i", "n", "f">>, <<"i", "n", "f", "i", "n", "i", "t", "y">>}
       THEN sign \o <<".", "i", "n", "f">>
       ELSE IF u = <<"n", "a", "n">> THEN <<".", "n", "a", "n">>
       ELSE IF Contains(u, ".") THEN sign \o u
       ELSE IF e = 0 THEN sign \o u \o <<".", "0">>
       ELSE sign \o SubSeq(u, 1, e - 1) \o <<".", "0">> \o SubSeq(u, e, Len(u))

DumpStr(s) == IF PlainAllowed(s) THEN Tok("plain", s) ELSE Tok("quoted", s)

DumpScalar(x) ==
    CASE x.t = "null" -> Tok("plain", Str_null)
      [] x.t = "bool" -> Tok("plain", IF x.v THEN Str_true ELSE Str_false)
      [] x.t = "int" -> Tok("plain", IntToStr(x.v))
      [] x.t = "float" -> Tok("plain", FloatText(x.v))
      [] x.t = "str" -> DumpStr(x.v)
      [] x.t = "list" -> Tok("flowseq", <<>>)
      [] x.t = "dict" -> Tok("flowmap", <<>>)

LoadScalar(tok) ==
    CASE tok.style = "quoted" -> PyStr(tok.text)
      [] tok.style = "flowmap" -> PyDict(<<>>)
      [] tok.style = "flowseq" -> PyList(<<>>)
      [] tok.style = "plain" ->
            LET tag == YamlResolve(tok.text)
            IN CASE tag = "null" -> PyNone
                 [] tag = "bool" -> PyBool(tok.text \in YamlTrues)
                 [] tag = "int" -> PyInt(IntOf(tok.text))
                 [] tag = "float" -> PyFloat(Lower(tok.text))
                 [] tag = "str" -> PyStr(tok.text)

(* yaml.dump of the items of a mapping at indentation ind; sort_keys=False keeps *)
(* the items in dict order; a block sequence under a key is not indented.       *)
(* Lists hold scalars only.                                                     *)
RECURSIVE DumpItems(_, _)
DumpItems(items, ind) ==
    IF items = <<>> THEN <<>>
    ELSE LET k == DumpStr(items[1][1])
             x == items[1][2]
             first ==
                 IF IsDict(x) /\ x.v # <<>>
                 THEN <<Line(ind, "key", k, Tok("open", <<>>))>> \o DumpItems(x.v, ind + 1)
                 ELSE IF IsList(x) /\ x.v # <<>>
                 THEN <<Line(ind, "key", k, Tok("open", <<>>))>>
                      \o [i \in 1..Len(x.v) |-> Line(ind, "item", NoTok, DumpScalar(x.v[i]))]
                 ELSE <<Line(ind, "key", k, DumpScalar(x))>>
         IN first \o DumpItems(Tail(items), ind)

(* yaml.dump(dict(base_config), Dumper=OrderedDumper, default_flow_style=False, sort_keys=False) *)
yaml_dump(items) ==
    IF items = <<>> THEN <<Line(0, "scalar", NoTok, Tok("flowmap", <<>>))>>
    ELSE DumpItems(items, 0)

(* a line that belongs to the value of a key at indentation ind *)
NestedUnder(l, ind) == l.ind > ind \/ (l.kind = "item" /\ l.ind = ind)

RECURSIVE BodyEnd(_, _, _)
BodyEnd(ls, ind, j) ==
    IF j + 1 <= Len(ls) /\ NestedUnder(ls[j + 1], ind) THEN BodyEnd(ls, ind, j + 1) ELSE j

(* construct a dict from the lines of a block mapping: a duplicate key keeps the *)
(* first position and the last value                                            *)
RECURSIVE LoadItems(_, _)
LoadItems(ls, acc) ==
    IF ls = <<>> THEN acc
    ELSE LET h == ls[1]
             j == BodyEnd(ls, h.ind, 1)
             body == SubSeq(ls, 2, j)
             x == IF h.val.style # "open" THEN LoadScalar(h.val)
                  ELSE IF body = <<>> THEN PyNone
                  ELSE IF body[1].kind = "item"
                  THEN PyList([i \in 1..Len(body) |-> LoadScalar(body[i].val)])
                  ELSE PyDict(LoadItems(body, <<>>))
         IN LoadItems(SubSeq(ls, j + 1, Len(ls)), DictPut(acc, h.key.text, x))

(* yaml.safe_load(f): raised = TRUE for text that is not YAML *)
yaml_safe_load(lines) ==
    IF lines = <<>> THEN [raised |-> FALSE, value |-> PyNone]
    ELSE IF \E i \in 1..Len(lines) : lines[i].kind = "garbage"
    THEN [raised |-> TRUE, value |-> PyNone]
    ELSE IF lines[1].kind = "scalar" THEN [raised |-> FALSE, value |-> LoadScalar(lines[1].val)]
    ELSE IF lines[1].kind = "item"
    THEN [raised |-> FALSE,
          value |-> PyList([i \in 1..Len(lines) |-> LoadScalar(lines[i].val)])]
    ELSE [raised |-> FALSE, value |-> PyDict(LoadItems(lines, <<>>))]

(* truth value of a Python object, as tested by `if loaded:` *)
Truthy(x) ==
    CASE x.t = "null" -> FALSE
      [] x.t = "bool" -> x.v
      [] x.t = "int" -> x.v # 0
      [] x.t = "float" -> \E i \in 1..Len(x.v) : x.v[i] \in Digits \ {"0"}
      [] x.t = "str" -> x.v # <<>>
      [] x.t = "list" -> x.v # <<>>
      [] x.t = "dict" -> x.v # <<>>

(* a list element that unpacks into a (key, value) pair: a str of two characters *)
IsPair(e) == e.t = "str" /\ Len(e.v) = 2

RECURSIVE PairsToItems(_, _)
PairsToItems(xs, acc) ==
    IF xs = <<>> THEN acc
    ELSE PairsToItems(Tail(xs), DictPut(acc, <<xs[1].v[1]>>, PyStr(<<xs[1].v[2]>>)))

(* OrderedDict(loaded): a mapping is copied; an iterable must yield pairs; a      *)
(* non-iterable raises TypeError, an element that is not a pair raises as well    *)
OrderedDict(loaded) ==
    IF IsDict(loaded) THEN [raised |-> FALSE, items |-> loaded.v]
    ELSE IF IsList(loaded) /\ \A i \in 1..Len(loaded.v) : IsPair(loaded.v[i])
    THEN [raised |-> FALSE, items |-> PairsToItems(loaded.v, <<>>)]
    ELSE [raised |-> TRUE, items |-> <<>>]

----------------------------------------------------------------------------
(* Ordering of strings and sorted() *)

CharCode(c) == IF c = "." THEN 46 ELSE Ord(c)

(* a < b for Python strings: lexicographic by code point, a proper prefix is smaller *)
RECURSIVE StrLess(_, _)
StrLess(a, b) ==
    IF b = <<>> THEN FALSE
    ELSE IF a = <<>> THEN TRUE
    ELSE IF Head(a) = Head(b) THEN StrLess(Tail(a), Tail(b))
    ELSE CharCode(Head(a)) < CharCode(Head(b))

RECURSIVE InsertSorted(_, _)
InsertSorted(s, x) ==
    IF s = <<>> THEN <<x>>
    ELSE IF StrLess(x, s[1]) THEN <<x>> \o s
    ELSE <<s[1]>> \o InsertSorted(Tail(s), x)

RECURSIVE SortedAcc(_, _)
SortedAcc(s, acc) == IF s = <<>> THEN acc ELSE SortedAcc(Tail(s), InsertSorted(acc, Head(s)))

(* sorted(list of str), stable *)
sorted(s) == SortedAcc(s, <<>>)

IndexOfName(items, name) == CHOOSE i \in 1..Len(items) : items[i][1] = name

(* variant: the environment is taken in enumeration order *)
sorted_items_Unsorted(items) == items

(* sorted(os.environ.items()): names are unique, so the pairs are ordered by name *)
sorted_items(items) ==
    LET names == sorted([i \in 1..Len(items) |-> items[i][1]])
    IN [i \in 1..Len(items) |-> items[IndexOfName(items, names[i])]]

----------------------------------------------------------------------------
(* env_to_storm_config *)

config_key_of(key) == ReplaceDoubleUnderscore(Lower(SubSeq(key, Len(Str_STORM_) + 1, Len(key))))

RECURSIVE ConfigsOf(_)
ConfigsOf(items) ==
    IF items = <<>> THEN <<>>
    ELSE IF ~StartsWith(items[1][1], Str_STORM_) THEN ConfigsOf(Tail(items))
    ELSE <<<<config_key_of(items[1][1]), parse_value(items[1][2])>>>> \o ConfigsOf(Tail(items))

(* the variable main() reads the target directory from *)
Name_CONF_DIR == Str_STORM_ \o <<"C", "O", "N", "F", "_", "D", "I", "R">>

(* variant: the variable that names the directory is not a candidate override *)
env_to_storm_config_SkipConfDir(env) ==
    ConfigsOf(sorted_items(SelectSeq(env, LAMBDA p : p[1] # Name_CONF_DIR)))

env_to_storm_config(env) == ConfigsOf(sorted_items(env))

----------------------------------------------------------------------------
(* Inputs of the model *)

Name_A == Str_STORM_ \o <<"A">>
Name_a == Str_STORM_ \o <<"a">>
Name_A__B == Str_STORM_ \o <<"A", "_", "_", "B">>
Name_PATH == <<"P", "A", "T", "H">>

EnvNames == {Name_A, Name_a, Name_A__B, Str_STORM_, Name_PATH}

RawValues == {<<>>, <<"1">>, <<"1", ",", "2">>}

(* the process environment in the order os.environ enumerates it *)
Environments ==
    {e \in UNION {[1..n -> EnvNames \X RawValues] : n \in 0..MaxEnv} :
        \A i, j \in 1..Len(e) : i # j => e[i][1] # e[j][1]}

Key_a == <<"a">>
Key_b == <<"b">>
Key_c == <<"c">>

ExistingDocs ==
    { <<<<Key_a, PyInt(1)>>, <<Key_b, PyStr(<<"x">>)>>>>,
      <<<<Key_a, PyNone>>>>,
      <<<<Key_a, PyList(<<PyInt(1), PyInt(2), PyInt(3)>>)>>>>,
      <<<<Key_b, PyStr(<<"x">>)>>, <<Key_a, PyDict(<<<<Key_c, PyInt(1)>>>>)>>>> }

NoFile == [exists |-> FALSE, lines |-> <<>>]
TextFile(lines) == [exists |-> TRUE, lines |-> lines]
ScalarFile(tok) == TextFile(<<Line(0, "scalar", NoTok, tok)>>)

InvalidFiles ==
    { TextFile(<<Line(0, "garbage", NoTok, NoTok)>>),
      ScalarFile(Tok("plain", <<"5">>)),
      ScalarFile(Tok("plain", <<"0">>)),
      ScalarFile(Tok("flowseq", <<>>)),
      TextFile(<<Line(0, "item", NoTok, Tok("plain", <<"1">>))>>),
      TextFile(<<Line(0, "item", NoTok, Tok("plain", <<"a", "b">>))>>) }

InitialFiles ==
    {NoFile, TextFile(<<>>), ScalarFile(Tok("flowmap", <<>>))}
    \cup {TextFile(yaml_dump(d)) : d \in ExistingDocs}
    \cup InvalidFiles

----------------------------------------------------------------------------
(* State *)

VARIABLES
    file,             \* the file <STORM_CONF_DIR>/storm.yaml
    environ,          \* os.environ, in enumeration order
    pc,               \* position of main()
    base_config,      \* items of base_config
    env_configs,      \* list of (config_key, parsed_value)
    idx,              \* position of the for loop over env_configs
    overridden_keys,  \* the module-level list
    stderr,           \* lines printed to sys.stderr
    exit_code,        \* return value of main(), -1 while it runs
    run,              \* number of the current invocation of the script
    file0,            \* the file as it was when the current invocation started
    history           \* exit codes of the earlier invocations

vars == <<file, environ, pc, base_config, env_configs, idx, overridden_keys,
          stderr, exit_code, run, file0, history>>

Msg(kind, key, detail) == [kind |-> kind, key |-> key, detail |-> detail]

(* type(parsed_value).__name__ *)
TypeName(x) ==
    CASE x.t = "null" -> "NoneType" [] x.t = "bool" -> "bool" [] x.t = "int" -> "int"
      [] x.t = "float" -> "float" [] x.t = "str" -> "str" [] x.t = "list" -> "list"
      [] x.t = "dict" -> "dict"

Init ==
    /\ file \in InitialFiles
    /\ environ \in Environments
    /\ pc = "load"
    /\ base_config = <<>>
    /\ env_configs = <<>>
    /\ idx = 0
    /\ overridden_keys = <<>>
    /\ stderr = <<>>
    /\ exit_code = -1
    /\ run = 1
    /\ file0 = file
    /\ history = <<>>

----------------------------------------------------------------------------
(* main() *)

(* outcome of lines 132-141: raised = TRUE when the inner except clause is entered *)
LoadOutcome(f) ==
    IF ~f.exists THEN [raised |-> FALSE, items |-> <<>>]
    ELSE LET loaded == yaml_safe_load(f.lines)
         IN IF loaded.raised THEN [raised |-> TRUE, items |-> <<>>]
            ELSE IF Truthy(loaded.value) THEN OrderedDict(loaded.value)
            ELSE [raised |-> FALSE, items |-> <<>>]

LoadConfig ==
    /\ pc = "load"
    /\ ~LoadOutcome(file).raised
    /\ base_config' = LoadOutcome(file).items
    /\ pc' = "env"
    /\ UNCHANGED <<file, environ, env_configs, idx, overridden_keys, stderr, exit_code,
                   run, file0, history>>

LoadFailed ==
    /\ pc = "load"
    /\ LoadOutcome(file).raised
    /\ stderr' = Append(stderr, Msg("load_error", <<>>, ""))
    /\ exit_code' = 1
    /\ pc' = "done"
    /\ UNCHANGED <<file, environ, base_config, env_configs, idx, overridden_keys,
                   run, file0, history>>

(* variant: the write is part of the branch that has overrides *)
EnvToStormConfig_NoWriteWhenEmpty ==
    /\ pc = "env"
    /\ env_configs' = env_to_storm_config(environ)
    /\ IF env_configs' # <<>>
       THEN /\ stderr' = Append(stderr, Msg("processing", <<>>, ""))
            /\ overridden_keys' = <<>>
            /\ idx' = 1
            /\ pc' = "apply"
            /\ UNCHANGED exit_code
       ELSE /\ stderr' = Append(stderr, Msg("none_found", <<>>, ""))
            /\ pc' = "done"
            /\ exit_code' = 0
            /\ UNCHANGED <<overridden_keys, idx>>
    /\ UNCHANGED <<file, environ, base_config, run, file0, history>>

EnvToStormConfig ==
    /\ pc = "env"
    /\ env_configs' = env_to_storm_config(environ)
    /\ IF env_configs' # <<>>
       THEN /\ stderr' = Append(stderr, Msg("processing", <<>>, ""))
            /\ overridden_keys' = <<>>
            /\ idx' = 1
            /\ pc' = "apply"
       ELSE /\ stderr' = Append(stderr, Msg("none_found", <<>>, ""))
            /\ pc' = "write"
            /\ UNCHANGED <<overridden_keys, idx>>
    /\ UNCHANGED <<file, environ, base_config, exit_code, run, file0, history>>

config_key == env_configs[idx][1]
parsed_value == env_configs[idx][2]
(* variant: the type check looks at the document as it was loaded *)
existing_value_FromLoaded == get_nested_value(PyDict(LoadOutcome(file0).items), config_key)

existing_value == get_nested_value(PyDict(base_config), config_key)

(* the type check of lines 158-165 tells the loop to skip this override *)
Conflict(existing, parsed) ==
    /\ existing # PyNone
    /\ \/ IsList(existing) /\ ~IsList(parsed)
       \/ IsDict(existing) /\ ~IsDict(parsed)

InLoop == pc = "apply" /\ idx <= Len(env_configs)

SkipOverride ==
    /\ InLoop
    /\ Conflict(existing_value, parsed_value)
    /\ stderr' = Append(stderr, Msg("skip", config_key, TypeName(parsed_value)))
    /\ idx' = idx + 1
    /\ UNCHANGED <<file, environ, pc, base_config, env_configs, overridden_keys,
                   exit_code, run, file0, history>>

(* variant: the file is written after every accepted override *)
SetOverride_WriteThrough ==
    /\ InLoop
    /\ ~Conflict(existing_value, parsed_value)
    /\ LET r == set_nested_value(PyDict(base_config), config_key, parsed_value)
       IN /\ ~r.raised
          /\ base_config' = r.node.v
    /\ file' = TextFile(yaml_dump(base_config'))
    /\ overridden_keys' = Append(overridden_keys, config_key)
    /\ idx' = idx + 1
    /\ UNCHANGED <<environ, pc, env_configs, stderr, exit_code, run, file0, history>>

SetOverride ==
    /\ InLoop
    /\ ~Conflict(existing_value, parsed_value)
    /\ LET r == set_nested_value(PyDict(base_config), config_key, parsed_value)
       IN /\ ~r.raised
          /\ base_config' = r.node.v
    /\ overridden_keys' = Append(overridden_keys, config_key)
    /\ idx' = idx + 1
    /\ UNCHANGED <<file, environ, pc, env_configs, stderr, exit_code, run, file0, history>>

(* set_nested_value raises TypeError: the outer except clause returns 1 *)
SetRaised ==
    /\ InLoop
    /\ ~Conflict(existing_value, parsed_value)
    /\ LET r == set_nested_value(PyDict(base_config), config_key, parsed_value)
       IN /\ r.raised
          /\ base_config' = r.node.v
    /\ stderr' = Append(stderr, Msg("unexpected", <<>>, ""))
    /\ exit_code' = 1
    /\ pc' = "done"
    /\ UNCHANGED <<file, environ, env_configs, idx, overridden_keys, run, file0, history>>

(* lines 171-175, after the loop *)
Report ==
    /\ pc = "apply"
    /\ idx > Len(env_configs)
    /\ stderr' = IF overridden_keys = <<>> THEN stderr
                 ELSE Append(stderr, Msg("overridden_header", <<>>, ""))
                      \o [i \in 1..Len(overridden_keys) |->
                              Msg("overridden", sorted(overridden_keys)[i], "")]
    /\ pc' = "write"
    /\ UNCHANGED <<file, environ, base_config, env_configs, idx, overridden_keys,
                   exit_code, run, file0, history>>

WriteConfig ==
    /\ pc = "write"
    /\ file' = TextFile(yaml_dump(base_config))
    /\ stderr' = Append(stderr, Msg("written", <<>>, ""))
    /\ exit_code' = 0
    /\ pc' = "done"
    /\ UNCHANGED <<environ, base_config, env_configs, idx, overridden_keys, run, file0, history>>

(* the script is started again, in a new process, with the same environment *)
Rerun ==
    /\ pc = "done"
    /\ run < MaxRuns
    /\ run' = run + 1
    /\ history' = Append(history, exit_code)
    /\ file0' = file
    /\ pc' = "load"
    /\ base_config' = <<>>
    /\ env_configs' = <<>>
    /\ idx' = 0
    /\ overridden_keys' = <<>>
    /\ stderr' = <<>>
    /\ exit_code' = -1
    /\ UNCHANGED <<file, environ>>

Next ==
    \/ LoadConfig
    \/ LoadFailed
    \/ EnvToStormConfig
    \/ SkipOverride
    \/ SetOverride
    \/ SetRaised
    \/ Report
    \/ WriteConfig
    \/ Rerun

Spec == Init /\ [][Next]_vars

----------------------------------------------------------------------------
(* Properties *)

(* C1: in the loop, an override whose path resolves to a list is rejected when   *)
(* its parsed value is not a list, one whose path resolves to a mapping when its *)
(* parsed value is not a mapping; a rejected override leaves the document and    *)
(* the accepted keys unchanged and prints one skip line; every other override is *)
(* set (get returns it afterwards) and recorded as accepted.                     *)
C1_ConflictPolicy ==
    [][InLoop =>
        LET e == existing_value
            p == parsed_value
            rejected == (IsList(e) /\ ~IsList(p)) \/ (IsDict(e) /\ ~IsDict(p))
        IN IF rejected
           THEN /\ base_config' = base_config
                /\ overridden_keys' = overridden_keys
                /\ stderr' = Append(stderr, Msg("skip", config_key, TypeName(p)))
           ELSE /\ get_nested_value(PyDict(base_config'), config_key) = p
                /\ overridden_keys' = Append(overridden_keys, config_key)
    ]_vars

(* C2: a run that has ended with a non-zero exit status has failed to load the   *)
(* existing document; no combination of overrides and existing values makes a    *)
(* run fail.                                                                     *)
C2_OnlyLoadErrorAborts ==
    (pc = "done" /\ exit_code # 0) => LoadOutcome(file0).raised

(* the file is present and its content is not a nested mapping *)
NotAMapping(f) ==
    /\ f.exists
    /\ f.lines # <<>>
    /\ yaml_safe_load(f.lines).raised \/ ~IsDict(yaml_safe_load(f.lines).value)

(* C3: when the existing file is present and holds anything other than a nested  *)
(* mapping, the run ends right after the load step with exit status 1, no        *)
(* override applied and the file unmodified.                                     *)
C3_InvalidDocumentAborts ==
    (NotAMapping(file0) /\ pc # "load") =>
        /\ pc = "done"
        /\ exit_code = 1
        /\ overridden_keys = <<>>
        /\ file = file0

(* C5: set_nested_value never fails and get_nested_value returns the value       *)
(* afterwards, whatever the intermediate segments of the path hold.              *)
C5_SetThenGet ==
    [][(InLoop /\ ~Conflict(existing_value, parsed_value)) =>
        /\ pc' = "apply"
        /\ get_nested_value(PyDict(base_config'), config_key) = parsed_value
    ]_vars

(* C10: every override produced from the environment has a non-empty, lowercase  *)
(* dotted path, and the document never gets the empty key.                       *)
C10_NonEmptyLowercasePath ==
    /\ \A i \in 1..Len(env_configs) :
          /\ env_configs[i][1] # <<>>
          /\ Lower(env_configs[i][1]) = env_configs[i][1]
    /\ ~HasKey(base_config, <<>>)

(* C4: running the script again on the file a successful run has written, with  *)
(* the same environment, succeeds and writes the same text: same keys, same     *)
(* values, same key order at every level.                                       *)
C4_Idempotent ==
    (pc = "done" /\ history # <<>> /\ history[Len(history)] = 0) =>
        /\ exit_code = 0
        /\ file = file0

(* a second run has ended for two variables of the same path, a list and a non-list *)
C4_Witness ==
    /\ pc = "done"
    /\ history = <<0>>
    /\ exit_code = 0
    /\ Len(env_configs) = 2
    /\ env_configs[1][1] = env_configs[2][1]
    /\ IsList(env_configs[1][2]) # IsList(env_configs[2][2])

(* the keys of a mapping and of its sub-mappings, in order, with their depth *)
RECURSIVE KeyPaths(_, _)
KeyPaths(items, depth) ==
    IF items = <<>> THEN <<>>
    ELSE <<<<depth, items[1][1]>>>>
         \o (IF IsDict(items[1][2]) THEN KeyPaths(items[1][2].v, depth + 1) ELSE <<>>)
         \o KeyPaths(Tail(items), depth)

(* the keys of the written text, in line order, with their indentation *)
KeyLines(lines) ==
    LET ks == SelectSeq(lines, LAMBDA l : l.kind = "key")
    IN [i \in 1..Len(ks) |-> <<ks[i].ind, ks[i].key.text>>]

(* the keys of old are, in the same order, the first keys of new, at every level *)
RECURSIVE KeyOrderKept(_, _)
KeyOrderKept(old, new) ==
    /\ Len(new) >= Len(old)
    /\ Keys(SubSeq(new, 1, Len(old))) = Keys(old)
    /\ \A i \in 1..Len(old) :
          (IsDict(old[i][2]) /\ IsDict(new[i][2])) => KeyOrderKept(old[i][2].v, new[i][2].v)

(* C6: every step of the loop keeps the existing keys of every mapping in their  *)
(* order and puts a new key after them, and the written text has the keys in     *)
(* exactly the order of the document.                                            *)
C6_KeyOrderPreserved ==
    [][/\ pc = "apply" => KeyOrderKept(base_config, base_config')
       /\ pc = "write" => KeyLines(file'.lines) = KeyPaths(base_config, 0)
    ]_vars

(* a run has appended a key to an unsorted mapping and re-set a key of a sub-mapping *)
C6_Witness ==
    /\ pc = "done"
    /\ exit_code = 0
    /\ Keys(base_config) = <<Key_b, Key_a, <<>>>>
    /\ overridden_keys = <<<<>>, <<"a", ".", "b">>>>
    /\ KeyLines(file.lines) = <<<<0, Key_b>>, <<0, Key_a>>, <<1, Key_c>>, <<1, Key_b>>, <<0, <<>>>>>>

(* the (name, value) pairs of the environment by ascending name *)
AscendingItems(env) ==
    LET S == {env[i] : i \in 1..Len(env)}
    IN CHOOSE s \in [1..Len(env) -> S] :
          \A i, j \in 1..Len(env) : i < j => StrLess(s[i][1], s[j][1])

(* the loop of lines 153-169 over a list of overrides *)
RECURSIVE ApplyAll(_, _, _, _)
ApplyAll(doc, cfgs, accepted, skipped) ==
    IF cfgs = <<>> THEN [raised |-> FALSE, doc |-> doc, accepted |-> accepted, skipped |-> skipped]
    ELSE LET k == cfgs[1][1]
             p == cfgs[1][2]
             r == set_nested_value(doc, k, p)
         IN IF Conflict(get_nested_value(doc, k), p)
            THEN ApplyAll(doc, Tail(cfgs), accepted, Append(skipped, k))
            ELSE IF r.raised
            THEN [raised |-> TRUE, doc |-> r.node, accepted |-> accepted, skipped |-> skipped]
            ELSE ApplyAll(r.node, Tail(cfgs), Append(accepted, k), skipped)

SkippedKeys ==
    LET ks == SelectSeq(stderr, LAMBDA m : m.kind = "skip")
    IN [i \in 1..Len(ks) |-> ks[i].key]

(* C7: whatever order the environment is enumerated in, the overrides are the    *)
(* ones of the variables by ascending raw name, and the exit status, the written *)
(* text, the accepted and the skipped keys are those of applying them in that    *)
(* order to the loaded document.                                                 *)
C7_OrderIndependent ==
    (pc \in {"apply", "write", "done"} /\ ~LoadOutcome(file0).raised) =>
        LET cfgs == ConfigsOf(AscendingItems(environ))
            exp == ApplyAll(PyDict(LoadOutcome(file0).items), cfgs, <<>>, <<>>)
        IN /\ env_configs = cfgs
           /\ pc = "done" =>
                 /\ exit_code = (IF exp.raised THEN 1 ELSE 0)
                 /\ overridden_keys = exp.accepted
                 /\ SkippedKeys = exp.skipped
                 /\ exit_code = 0 => file = TextFile(yaml_dump(exp.doc.v))

(* a run has ended for two variables of one path that the environment lists in  *)
(* descending name order, one accepted and one skipped                           *)
C7_Witness ==
    /\ pc = "done"
    /\ exit_code = 0
    /\ Len(environ) = 2
    /\ StrLess(environ[2][1], environ[1][1])
    /\ Len(env_configs) = 2
    /\ env_configs[1][1] = env_configs[2][1]
    /\ Len(overridden_keys) = 1
    /\ Len(SkippedKeys) = 1

NoMatchingVariables == \A i \in 1..Len(environ) : ~StartsWith(environ[i][1], Str_STORM_)

AbsentEmptyOrValid(f) ==
    \/ ~f.exists
    \/ f.lines = <<>>
    \/ ~yaml_safe_load(f.lines).raised /\ IsDict(yaml_safe_load(f.lines).value)

(* C8: with no STORM_ variable and an absent, empty or valid existing document,  *)
(* a run that has ended has exit status 0 and the file exists and holds the      *)
(* loaded mapping, or the empty mapping when nothing was loaded.                 *)
C8_WritesWithoutOverrides ==
    (pc = "done" /\ NoMatchingVariables /\ AbsentEmptyOrValid(file0)) =>
        /\ exit_code = 0
        /\ file.exists
        /\ ~yaml_safe_load(file.lines).raised
        /\ yaml_safe_load(file.lines).value =
              (IF file0.exists /\ file0.lines # <<>>
               THEN yaml_safe_load(file0.lines).value
               ELSE PyDict(<<>>))

(* a run without any STORM_ variable and without a file has written the empty document *)
C8_Witness ==
    /\ pc = "done"
    /\ exit_code = 0
    /\ environ # <<>>
    /\ NoMatchingVariables
    /\ ~file0.exists
    /\ file = ScalarFile(Tok("flowmap", <<>>))

(* C9: the file changes only in the write step, which ends the run with exit     *)
(* status 0; a run ends with exit status 0 only by that step; when a run ends    *)
(* with another exit status the file is the one the run started with; nothing    *)
(* touches the file after the run has ended.                                     *)
C9_SingleFinalWrite ==
    [][/\ file' # file => pc = "write"
       /\ pc = "write" => /\ pc' = "done"
                          /\ exit_code' = 0
                          /\ file' = TextFile(yaml_dump(base_config))
       /\ (pc' = "done" /\ exit_code' = 0) => pc = "write"
       /\ (pc' = "done" /\ exit_code' # 0) => file' = file0
       /\ pc = "done" => file' = file
    ]_vars

(* a run has failed after it had applied an override in memory *)
C9_Witness ==
    /\ pc = "done"
    /\ exit_code = 1
    /\ overridden_keys # <<>>
    /\ base_config # LoadOutcome(file0).items
    /\ file = file0

----------------------------------------------------------------------------
(* Decoding and parsing of one variable: the run of a process that has no   *)
(* file and a single environment variable, up to the end of                  *)
(* env_to_storm_config                                                       *)

MaxNameLen == 3
MaxRawLen == 3

SeqsUpTo(S, n) == UNION {[1..m -> S] : m \in 0..n}

Name_SUPERVISOR__SLOTS__PORTS ==
    Str_STORM_ \o <<"S", "U", "P", "E", "R", "V", "I", "S", "O", "R", "_", "_",
                    "S", "L", "O", "T", "S", "_", "_", "P", "O", "R", "T", "S">>
Name_UI__PORT == Str_STORM_ \o <<"U", "I", "_", "_", "P", "O", "R", "T">>
Name_NIMBUS_SEEDS ==
    Str_STORM_ \o <<"N", "I", "M", "B", "U", "S", "_", "S", "E", "E", "D", "S">>

Str_nimbus1 == <<"n", "i", "m", "b", "u", "s", "1">>
Str_nimbus2 == <<"n", "i", "m", "b", "u", "s", "2">>

NameChars == {"A", "b", "_"}

(* names with the prefix, names without it, and the names of the docstring *)
DecodeNames ==
    {Str_STORM_ \o r : r \in SeqsUpTo(NameChars, MaxNameLen)}
    \cup (SeqsUpTo(NameChars, MaxNameLen) \ {<<>>})
    \cup {<<"S", "T", "O", "R", "M">> \o r : r \in SeqsUpTo({"A", "b"}, 2)}
    \cup {Name_SUPERVISOR__SLOTS__PORTS, Name_UI__PORT, Name_NIMBUS_SEEDS}

RawChars == {"1", "0", " ", "-", ".", "e", ",", "x", "_"}

ParseRaws ==
    SeqsUpTo(RawChars, MaxRawLen)
    \cup { Str_true, <<"T", "r", "u", "e">>, <<"F", "A", "L", "S", "E">>,
           <<"i", "n", "f">>, <<"n", "a", "n">>,
           <<"t", "r", "u", "e", ",", "1">>,
           <<"6", "7", "0", "0", ",", "6", "7", "0", "1", ",", "6", "7", "0", "2">>,
           <<"8", "0", "8", "0">> }

InputPairs ==
    (DecodeNames \X {<<"1">>})
    \cup ({Name_A} \X ParseRaws)
    \cup {<<Name_NIMBUS_SEEDS, Str_nimbus1 \o <<",">> \o Str_nimbus2>>}

InitInputs ==
    /\ file = NoFile
    /\ environ \in {<<p>> : p \in InputPairs}
    /\ pc = "load"
    /\ base_config = <<>>
    /\ env_configs = <<>>
    /\ idx = 0
    /\ overridden_keys = <<>>
    /\ stderr = <<>>
    /\ exit_code = -1
    /\ run = 1
    /\ file0 = file
    /\ history = <<>>

NextInputs ==
    \/ LoadConfig
    \/ EnvToStormConfig

SpecInputs == InitInputs /\ [][NextInputs]_vars

(* env_to_storm_config has returned *)
Decoded == pc \in {"apply", "write"}

UpperChars ==
    {"A", "B", "C", "D", "E", "F", "G", "H", "I", "J", "K", "L", "M",
     "N", "O", "P", "Q", "R", "S", "T", "U", "V", "W", "X", "Y", "Z"}

(* every dot written back as a double underscore *)
RECURSIVE DotsToUnderscores(_)
DotsToUnderscores(k) ==
    IF k = <<>> THEN <<>>
    ELSE (IF Head(k) = "." THEN <<"_", "_">> ELSE <<Head(k)>>) \o DotsToUnderscores(Tail(k))

HasPair(s, a, b) == \E i \in 1..(Len(s) - 1) : s[i] = a /\ s[i + 1] = b

C12_DocstringExample ==
    (Decoded /\ environ[1][1] = Name_NIMBUS_SEEDS) =>
        env_configs =
            << << <<"n", "i", "m", "b", "u", "s", ".", "s", "e", "e", "d", "s">>,
                  PyList(<<PyStr(Str_nimbus1), PyStr(Str_nimbus2)>>) >> >>

(* The raw value of the single variable STORM_A of SpecInputs, as parse_value decoded it *)
ParsedOne == Decoded /\ environ[1][1] = Name_A /\ Len(env_configs) = 1

OnlyDigits(s) == s # <<>> /\ \A i \in 1..Len(s) : s[i] \in Digits

(* an optional sign followed by base-10 digits, nothing around them *)
SignedDigits(s) == OnlyDigits(Unsigned(s))

(* decimal notation [sign][digits][.[digits]] or scientific notation with an exponent *)
DecimalOrScientific(s) ==
    LET u == Unsigned(s)
        e == IndexOf(u, {"e", "E"})
        m == IF e = 0 THEN u ELSE SubSeq(u, 1, e - 1)
        x == IF e = 0 THEN <<>> ELSE SubSeq(u, e + 1, Len(u))
        d == IndexOf(m, {"."})
        ip == IF d = 0 THEN m ELSE SubSeq(m, 1, d - 1)
        fp == IF d = 0 THEN <<>> ELSE SubSeq(m, d + 1, Len(m))
    IN /\ ip = <<>> \/ OnlyDigits(ip)
       /\ fp = <<>> \/ OnlyDigits(fp)
       /\ ip # <<>> \/ fp # <<>>
       /\ e = 0 \/ SignedDigits(x)

(* C13: a non-empty, comma-free value that is not true/false in any letter case  *)
(* is an integer exactly when it is an optional sign and digits, otherwise a     *)
(* float exactly when it is in decimal or scientific notation, otherwise the     *)
(* string itself; a value with surrounding whitespace is never a number.         *)
C13_SingleValueTyping ==
    ParsedOne =>
        LET raw == environ[1][2]
            val == env_configs[1][2]
        IN (raw # <<>> /\ ~Contains(raw, ",") /\ Lower(raw) \notin {Str_true, Str_false}) =>
              /\ val.t = "int" <=> SignedDigits(raw)
              /\ val.t = "float" <=> (~SignedDigits(raw) /\ DecimalOrScientific(raw))
              /\ val.t \notin {"int", "float"} => val = PyStr(raw)
              /\ (raw[1] \in Whitespace \/ raw[Len(raw)] \in Whitespace) =>
                    val.t \notin {"int", "float"}

(* C14: a value with a comma becomes a flat, non-empty list with one element  *)
(* per comma-separated piece in split order, each element being what parse    *)
(* gives the whitespace-trimmed piece taken on its own.                       *)
C14_ListOfParsedPieces ==
    ParsedOne =>
        LET raw == environ[1][2]
            val == env_configs[1][2]
            pieces == Split(raw, ",")
        IN Contains(raw, ",") =>
              /\ IsList(val)
              /\ Len(val.v) = Len(pieces) /\ Len(val.v) >= 1
              /\ \A i \in 1..Len(pieces) :
                    /\ ~IsList(val.v[i])
                    /\ val.v[i] = parse_value(Strip(pieces[i]))

(* the dotted paths listed under "Configuration keys overridden:", in listing order *)
ReportedKeys ==
    LET lines == SelectSeq(stderr, LAMBDA m : m.kind = "overridden")
    IN [i \in 1..Len(lines) |-> lines[i].key]

(* the loop is over and the report of lines 171-175 has been printed *)
Reported == pc \in {"write", "done"} /\ exit_code # 1 /\ env_configs # <<>>

(* C15: the report lists, in ascending order and each exactly once, precisely  *)
(* the dotted paths at which an override was accepted in the run, also when    *)
(* two variables that differ only in letter case are both accepted.            *)
C15_ReportIsOrderedSet ==
    Reported =>
        /\ \A i \in 1..(Len(ReportedKeys) - 1) : StrLess(ReportedKeys[i], ReportedKeys[i + 1])
        /\ {ReportedKeys[i] : i \in 1..Len(ReportedKeys)}
              = {overridden_keys[i] : i \in 1..Len(overridden_keys)}

(* the document the i-th override of the run is checked against and applied to *)
DocBefore(i) ==
    ApplyAll(PyDict(LoadOutcome(file0).items), SubSeq(env_configs, 1, i - 1), <<>>, <<>>).doc

(* the i-th override passes the type check of the loop *)
AcceptedAt(i) ==
    ~Conflict(get_nested_value(DocBefore(i), env_configs[i][1]), env_configs[i][2])

(* no later override of the run is accepted at the path of the i-th *)
LastAcceptedAt(i) ==
    /\ AcceptedAt(i)
    /\ \A j \in (i + 1)..Len(env_configs) :
          env_configs[j][1] = env_configs[i][1] => ~AcceptedAt(j)

(* C16: each override is checked against the document as modified by the      *)
(* earlier overrides of the run, not as loaded: a scalar override that follows *)
(* an accepted list override of the same path is rejected, and the final value *)
(* at a path is that of the last accepted variable for it.                     *)
C16_CheckedAgainstModified ==
    Reported =>
        LET r == ApplyAll(PyDict(LoadOutcome(file0).items), env_configs, <<>>, <<>>)
        IN /\ ~r.raised
           /\ base_config = r.doc.v
           /\ overridden_keys = r.accepted
           /\ SkippedKeys = r.skipped
           /\ \A i \in 1..(Len(env_configs) - 1) :
                 ( /\ env_configs[i + 1][1] = env_configs[i][1]
                   /\ AcceptedAt(i)
                   /\ IsList(env_configs[i][2])
                   /\ ~IsList(env_configs[i + 1][2]) ) => ~AcceptedAt(i + 1)
           /\ \A i \in 1..Len(env_configs) :
                 LastAcceptedAt(i) =>
                    get_nested_value(PyDict(base_config), env_configs[i][1]) = env_configs[i][2]

C16_Witness ==
    /\ pc = "done"
    /\ exit_code = 0
    /\ Len(env_configs) = 2
    /\ env_configs[1][1] = env_configs[2][1]
    /\ IsList(env_configs[1][2])
    /\ env_configs[2][2] = PyInt(1)
    /\ ~IsList(get_nested_value(PyDict(LoadOutcome(file0).items), env_configs[1][1]))
    /\ overridden_keys = <<env_configs[1][1]>>
    /\ SkippedKeys = <<env_configs[1][1]>>
    /\ get_nested_value(yaml_safe_load(file.lines).value, env_configs[1][1]) = env_configs[1][2]

----------------------------------------------------------------------------
(* Runs in which STORM_CONF_DIR is set *)

Name_conf_dir == Str_STORM_ \o <<"c", "o", "n", "f", "_", "d", "i", "r">>
Key_conf_dir == <<"c", "o", "n", "f", "_", "d", "i", "r">>

DirValues == {<<"/", "c">>, <<>>, <<"1">>}

OtherNames == {Name_A, Name_A__B, Name_conf_dir}

(* environments of at most MaxEnv variables, STORM_CONF_DIR among them, in any order *)
ConfDirEnvironments ==
    {e \in UNION {[1..n -> (({Name_CONF_DIR} \X DirValues) \cup (OtherNames \X RawValues))]
                     : n \in 1..MaxEnv} :
        /\ \A i, j \in 1..Len(e) : i # j => e[i][1] # e[j][1]
        /\ \E i \in 1..Len(e) : e[i][1] = Name_CONF_DIR}

ConfDirDocs ==
    { <<<<Key_conf_dir, PyList(<<PyInt(1), PyInt(2)>>)>>>>,
      <<<<Key_conf_dir, PyStr(<<"/", "o">>)>>>>,
      <<<<Key_a, PyInt(1)>>, <<Key_b, PyStr(<<"x">>)>>>> }

ConfDirFiles ==
    {NoFile, TextFile(<<Line(0, "garbage", NoTok, NoTok)>>)}
    \cup {TextFile(yaml_dump(d)) : d \in ConfDirDocs}

InitConfDir ==
    /\ file \in ConfDirFiles
    /\ environ \in ConfDirEnvironments
    /\ pc = "load"
    /\ base_config = <<>>
    /\ env_configs = <<>>
    /\ idx = 0
    /\ overridden_keys = <<>>
    /\ stderr = <<>>
    /\ exit_code = -1
    /\ run = 1
    /\ file0 = file
    /\ history = <<>>

SpecConfDir == InitConfDir /\ [][Next]_vars

(* os.environ['STORM_CONF_DIR'] *)
ConfDir == environ[IndexOfName(environ, Name_CONF_DIR)][2]

(* position of STORM_CONF_DIR among the selected variables, which are in name order *)
ConfDirIdx ==
    Cardinality({i \in 1..Len(environ) :
        /\ StartsWith(environ[i][1], Str_STORM_)
        /\ environ[i][1] = Name_CONF_DIR \/ StrLess(environ[i][1], Name_CONF_DIR)})

(* the run has written the document and STORM_CONF_DIR passed the type check *)
ConfDirAccepted ==
    /\ pc = "done"
    /\ exit_code = 0
    /\ ConfDirIdx \in 1..Len(env_configs)
    /\ AcceptedAt(ConfDirIdx)

WrittenDoc == yaml_safe_load(file.lines).value

(* C17 as stated: whenever STORM_CONF_DIR is set and not rejected by a conflict, *)
(* the written document has the top-level key conf_dir holding the directory     *)
(* string, and the path conf_dir is in the accepted report.                      *)
C17_HoldsDirectoryString ==
    ConfDirAccepted =>
        /\ IsDict(WrittenDoc)
        /\ HasKey(WrittenDoc.v, Key_conf_dir)
        /\ Lookup(WrittenDoc.v, Key_conf_dir) = PyStr(ConfDir)
        /\ \E i \in 1..Len(ReportedKeys) : ReportedKeys[i] = Key_conf_dir

(* C17, amended: STORM_CONF_DIR is selected as the override conf_dir = the value *)
(* parse gives the directory string; when it is not rejected by a conflict and   *)
(* the run writes the document, the document has the top-level key conf_dir      *)
(* holding the value of the last variable accepted at the path conf_dir, which   *)
(* is that parsed value unless a variable whose name differs in letter case is   *)
(* accepted after it, and conf_dir is in the accepted report.                    *)
C17_ConfDirIsAnOverride ==
    (pc = "done" /\ exit_code = 0) =>
        /\ ConfDirIdx \in 1..Len(env_configs)
        /\ env_configs[ConfDirIdx] = <<Key_conf_dir, parse_value(ConfDir)>>
        /\ AcceptedAt(ConfDirIdx) =>
              /\ IsDict(WrittenDoc)
              /\ HasKey(WrittenDoc.v, Key_conf_dir)
              /\ \E i \in ConfDirIdx..Len(env_configs) :
                    /\ env_configs[i][1] = Key_conf_dir
                    /\ LastAcceptedAt(i)
                    /\ Lookup(WrittenDoc.v, Key_conf_dir) = env_configs[i][2]
              /\ LastAcceptedAt(ConfDirIdx) =>
                    Lookup(WrittenDoc.v, Key_conf_dir) = parse_value(ConfDir)
              /\ \E i \in 1..Len(ReportedKeys) : ReportedKeys[i] = Key_conf_dir

C17_Witness ==
    /\ ConfDirAccepted
    /\ ConfDir = <<"/", "c">>
    /\ Len(environ) = 2
    /\ LoadOutcome(file0).items # <<>>
    /\ Lookup(WrittenDoc.v, Key_conf_dir) = PyStr(<<"/", "c">>)
    /\ \E i \in 1..Len(ReportedKeys) : ReportedKeys[i] = Key_conf_dir

====
